---- MODULE Spec2Model ----
(***************************************************************************)
(* S3 to GCS replication service (src/app.py).                             *)
(*                                                                         *)
(* The model follows ReplicationService.replicate step by step: every      *)
(* remote call (head_object, blob.exists, blob.reload, get_object,         *)
(* upload_from_file) is one action of one worker, so that concurrent       *)
(* requests, source overwrites and store errors interleave between them.   *)
(* The variable obs records, per invocation, what happened (the log of     *)
(* attempts, the waits slept, the streams opened); the program never       *)
(* reads it.                                                               *)
(***************************************************************************)
EXTENDS Integers, Sequences, FiniteSets, TLC

\* ------------------------------------------------------------------ bounds
MaxRetriesBound == 3      \* MAX_RETRIES is read from the environment: at most this
MaxCalls == 3             \* replicate requests served in one behaviour
MaxSrcChanges == 2        \* overwrites / deletions of the source object
MaxFaults == 1            \* store errors in one behaviour while two workers run
MaxNameLen == 2           \* characters of a bucket name or key handed to the key derivation

\* ------------------------------------------------------------------ values
Workers == {"w1", "w2"}   \* request threads of the server
Versions == {1, 2}        \* contents a source object can have
Absent == 0               \* no object under the key

\* The quote character S3 wraps an ETag in.
Q == "q"

Locators == {[bucket |-> <<"b">>, key |-> <<"k">>]}

\* head_object's ETag header of a content: the quoted content hash.
RawETagOf(v) == IF v = 1 THEN <<Q, "a", Q>> ELSE <<Q, "c", "d", Q>>

\* head_object's ContentLength of a content.
SizeOf(v) == IF v = 1 THEN 4 ELSE 7

\* str.strip('"'): drops every leading and trailing quote.
RECURSIVE lstrip(_)
lstrip(s) == IF s # <<>> /\ Head(s) = Q THEN lstrip(Tail(s)) ELSE s

RECURSIVE rstrip(_)
rstrip(s) == IF s # <<>> /\ s[Len(s)] = Q THEN rstrip(SubSeq(s, 1, Len(s) - 1)) ELSE s

strip(s) == rstrip(lstrip(s))

\* Mutant: the key without the separator.
gcs_key_no_separator(s3_bucket, s3_key) == s3_bucket \o s3_key

\* gcs_key = f"{s3_bucket}/{s3_key}"
gcs_key(s3_bucket, s3_key) == s3_bucket \o <<"/">> \o s3_key

GcsKeys == {gcs_key(l.bucket, l.key) : l \in Locators}

\* The s3_bucket and s3_key values replicate_endpoint lets through: any
\* non-empty string (here over a letter and the separator).
Names == UNION {[1..n -> {"a", "/"}] : n \in 1..MaxNameLen}

NamePairs == [bucket : Names, key : Names]

\* _get_s3_metadata's return value for a source object of content v.
s3_metadata_of(v) == [etag |-> strip(RawETagOf(v)), size |-> SizeOf(v)]

NoMetadata == [etag |-> <<>>, size |-> -1]

\* A destination object. hasMeta = FALSE is blob.metadata = None.
NoBlob ==
    [exists |-> FALSE, body |-> Absent, hasMeta |-> FALSE, s3_etag |-> <<>>,
     s3_bucket |-> <<>>, s3_key |-> <<>>, byEngine |-> FALSE]

\* An object somebody else put under the key, with no provenance metadata.
ForeignBlob ==
    [exists |-> TRUE, body |-> Absent, hasMeta |-> FALSE, s3_etag |-> <<>>,
     s3_bucket |-> <<>>, s3_key |-> <<>>, byEngine |-> FALSE]

\* ------------------------------------------------------------------ errors
\* Kinds of exception a remote call raises. Transient and Permanent stand for
\* the library exceptions (ClientError, BotoCoreError, GoogleAPIError) of a
\* throttled/5xx call and of an auth/permission/bad-request call; NoSuchKey is
\* get_object's ClientError for a missing key; FileNotFoundError is what
\* _get_s3_metadata raises for a 404; ValueError is a ValueError raised inside
\* a remote call (the upload machinery raises it for a stream it cannot use);
\* Other is any other exception outside the three library classes.
LibraryErrors == {"Transient", "Permanent"}

\* Mutant: a bare `except Exception` in the retrier.
IsCaught_any(kind) == TRUE

\* except (ClientError, BotoCoreError, gcs_exceptions.GoogleAPIError)
IsCaught(kind) == kind \in {"Transient", "Permanent", "NoSuchKey"}

\* Mutant: a loop that does not look at MAX_RETRIES.
InRange_unbounded(attempt, max) == TRUE

\* for attempt in range(MAX_RETRIES): is there an iteration for this attempt?
InRange(attempt, max) == attempt < max

\* Mutant: the loop goes round without counting.
next_attempt_same(attempt) == attempt

\* The loop variable of the iteration after this one.
next_attempt(attempt) == attempt + 1

\* if attempt == MAX_RETRIES - 1: raise
IsLastAttempt(attempt, max) == attempt = max - 1

\* Mutant: the last error is wrapped in an error of the retrier's own.
reraise_wrapped(kind) == "RetriesExhausted"

\* The bare `raise` of the except clause: the exception being handled.
reraise(kind) == kind

\* Mutant: a linear wait, 2 * attempt.
wait_time_linear(attempt) == 2 * attempt

\* Mutant: a wait that grows by powers of ten.
wait_time_base_ten(attempt) == 10 ^ attempt

\* wait_time = 2 ** attempt
wait_time(attempt) == 2 ^ attempt

\* Mutant: the except branch answers True.
check_gcs_exists_answers_true == TRUE

\* What _check_gcs_exists answers from its except branch.
check_gcs_exists_on_error == FALSE

\* Mutant: the comparison reads the wrong metadata field.
etag_matches_wrong_field(blob, s3_etag) == blob.hasMeta /\ blob.s3_key = s3_etag

\* Mutant: any object under the key counts as already replicated.
etag_matches_any(blob, s3_etag) == TRUE

\* Mutant: an object without provenance metadata counts as a match.
etag_matches_no_metadata(blob, s3_etag) == ~blob.hasMeta \/ blob.s3_etag = s3_etag

\* stored_etag == s3_etag, with stored_etag = None when there is no metadata.
etag_matches(blob, s3_etag) == blob.hasMeta /\ blob.s3_etag = s3_etag

\* replicate_endpoint's status code for an exception replicate raised.
status_code(kind) == IF kind = "ValueError" THEN 404 ELSE 500

\* replicate's except clauses: FileNotFoundError becomes ValueError.
raised_by_replicate(kind) == IF kind = "FileNotFoundError" THEN "ValueError" ELSE kind

\* Mutant: the size is measured again on the bytes that were uploaded.
size_bytes_remeasured(s3_metadata, body) == SizeOf(body)

\* 'size_bytes': s3_metadata['size'], whatever was uploaded.
size_bytes_of(s3_metadata, body) == s3_metadata.size

\* ------------------------------------------------------------------ state
VARIABLES
    maxRetries,   \* MAX_RETRIES
    src,          \* source store: locator -> content (Absent when no object)
    dst,          \* destination bucket: key -> blob
    inv,          \* worker -> the invocation it runs (position and locals)
    obs,          \* worker -> record of what its invocation did
    last,         \* worker -> summary of the invocation it answered last
    lastEnd,      \* locator -> how the last call on it ended, if it replicated or skipped
    calls,        \* replicate requests still to start
    srcChanges,   \* source changes made
    threads,      \* the workers that take requests
    faultsLeft,   \* store errors still to happen
    reqs,         \* key derivation alone: the (s3_bucket, s3_key) pairs requested
    derivedKeys   \* key derivation alone: the gcs_key computed for each, in order

vars == <<maxRetries, src, dst, inv, obs, last, lastEnd, calls, srcChanges, threads,
          faultsLeft, reqs, derivedKeys>>

\* What no action of a replication changes.
fixed == <<maxRetries, threads, reqs, derivedKeys>>

NoResult == [status |-> "none", code |-> 0, error |-> "none", size_bytes |-> -1]

IdleInv ==
    [pc |-> "idle", arg |-> CHOOSE l \in Locators : TRUE, attempt |-> 0,
     s3_metadata |-> NoMetadata, stream |-> "none", streamBody |-> Absent,
     result |-> NoResult]

FreshObs ==
    [inspectLog |-> <<>>, inspectWaits |-> <<>>, xferLog |-> <<>>, xferWaits |-> <<>>,
     checkErr |-> FALSE, dstQueries |-> 0, checkAnswers |-> <<>>, opened |-> 0, writes |-> 0,
     startMatch |-> FALSE, changedSincePrev |-> FALSE, srcMoved |-> FALSE,
     dstMoved |-> FALSE, overlap |-> FALSE, tagChanged |-> FALSE,
     dstAtStart |-> [k \in GcsKeys |-> NoBlob]]

\* What is kept of an answered invocation: its status, and whether it ran
\* beside another invocation, met no store error and saw no source change
\* (a change of the source afterwards clears it, too).
NoLast == [arg |-> CHOOSE l \in Locators : TRUE, status |-> "none", clean |-> FALSE]

Active(w) == inv[w].pc \notin {"idle", "done"}

KeyOf(w) == gcs_key(inv[w].arg.bucket, inv[w].arg.key)

\* Store errors are the failures of a call, not the honest 404 / NoSuchKey answers.
CanFail == faultsLeft > 0

\* No call has ended yet, or the last one failed.
NoEnd == [src |-> -1, tag |-> <<>>]

Smaller(a, b) == IF a < b THEN a ELSE b

\* MAX_RETRIES is any integer the environment gives; values above errors + 1
\* behave like errors + 1, since a retrier never reaches its later attempts.
InitWith(T, requests, errors) ==
    /\ threads = T
    /\ faultsLeft = errors
    /\ maxRetries \in (-1)..Smaller(MaxRetriesBound, errors + 1)
    /\ src \in [Locators -> {Absent} \cup Versions]
    /\ dst \in [GcsKeys -> {NoBlob, ForeignBlob}]
    /\ inv = [w \in Workers |-> IdleInv]
    /\ obs = [w \in Workers |-> FreshObs]
    /\ last = [w \in Workers |-> NoLast]
    /\ lastEnd = [l \in Locators |-> NoEnd]
    /\ calls = requests
    /\ srcChanges = 0
    /\ reqs = <<>>
    /\ derivedKeys = <<>>

\* ------------------------------------------------------------------ helpers
\* The response replicate_endpoint sends for an exception of this kind.
Failed(kind) ==
    [status |-> "failed", code |-> status_code(raised_by_replicate(kind)),
     error |-> raised_by_replicate(kind), size_bytes |-> -1]

Skipped == [status |-> "skipped", code |-> 200, error |-> "none", size_bytes |-> -1]

Succeeded(size) == [status |-> "success", code |-> 200, error |-> "none", size_bytes |-> size]

\* _retry_with_backoff's except clause: sleep and go round the loop again?
Retries(w, kind) == IsCaught(kind) /\ ~IsLastAttempt(inv[w].attempt, maxRetries)

\* The invocation after an attempt of func raised kind; `again` is where the
\* next attempt starts.
AfterError(w, kind, again) ==
    IF Retries(w, kind)
    THEN [inv[w] EXCEPT !.pc = again, !.attempt = next_attempt(@)]
    ELSE [inv[w] EXCEPT !.pc = "done",
                        !.result = Failed(IF IsCaught(kind) THEN reraise(kind) ELSE kind)]

\* time.sleep(wait_time), when the retrier sleeps.
Slept(w, kind) == IF Retries(w, kind) THEN <<wait_time(inv[w].attempt)>> ELSE <<>>

\* When a call returns success or skipped: the source content at that moment and
\* the tag the call inspected.
EndOf(w, res) ==
    [lastEnd EXCEPT ![inv[w].arg] =
        IF res.status \in {"success", "skipped"}
        THEN [src |-> src[inv[w].arg], tag |-> inv[w].s3_metadata.etag]
        ELSE NoEnd]

\* ------------------------------------------------------------------ requests
\* replicate_endpoint: a request thread starts replicate(s3_bucket, s3_key).
Call(w, l) ==
    /\ w \in threads
    /\ inv[w].pc = "idle"
    /\ last' = [last EXCEPT ![w] = NoLast]
    /\ calls > 0
    /\ calls' = calls - 1
    /\ inv' = [inv EXCEPT ![w] = [IdleInv EXCEPT !.pc = "inspect", !.arg = l]]
    /\ LET key == gcs_key(l.bucket, l.key)
           others == \E v \in Workers \ {w} : Active(v)
       IN obs' = [v \in Workers |->
                    IF v = w
                    THEN [FreshObs EXCEPT
                            !.startMatch =
                                /\ src[l] # Absent
                                /\ dst[key].exists
                                /\ dst[key].hasMeta
                                /\ dst[key].s3_etag = strip(RawETagOf(src[l])),
                            !.changedSincePrev =
                                /\ src[l] # Absent
                                /\ lastEnd[l].src \in Versions
                                /\ strip(RawETagOf(src[l])) # strip(RawETagOf(lastEnd[l].src)),
                            !.tagChanged =
                                /\ src[l] # Absent
                                /\ lastEnd[l].tag # <<>>
                                /\ strip(RawETagOf(src[l])) # lastEnd[l].tag,
                            !.overlap = others,
                            !.dstAtStart = dst]
                    ELSE IF Active(v) THEN [obs[v] EXCEPT !.overlap = TRUE] ELSE obs[v]]
    /\ UNCHANGED <<fixed, faultsLeft, src, dst, lastEnd, srcChanges>>

\* The invocation met no store error.
NoFaults(w) ==
    /\ ~obs[w].checkErr
    /\ \A i \in DOMAIN obs[w].inspectLog : obs[w].inspectLog[i] \notin {"Transient", "Permanent"}
    /\ \A i \in DOMAIN obs[w].xferLog :
          obs[w].xferLog[i] \notin {"Transient", "Permanent", "Other", "ValueError"}

\* replicate has returned or raised: replicate_endpoint sends the response and
\* the thread is free again.
Respond(w) ==
    /\ inv[w].pc = "done"
    /\ inv' = [inv EXCEPT ![w] = IdleInv]
    /\ obs' = [obs EXCEPT ![w] = FreshObs]
    /\ last' = [last EXCEPT ![w] =
                  [arg |-> inv[w].arg, status |-> inv[w].result.status,
                   clean |-> obs[w].overlap /\ NoFaults(w) /\ ~obs[w].srcMoved]]
    /\ UNCHANGED <<fixed, faultsLeft, src, dst, lastEnd, calls, srcChanges>>

\* ------------------------------------------------------------------ inspect
\* head_object answers: _get_s3_metadata returns the metadata.
HeadOk(w) ==
    /\ inv[w].pc = "inspect"
    /\ InRange(inv[w].attempt, maxRetries)
    /\ src[inv[w].arg] # Absent
    /\ inv' = [inv EXCEPT ![w] = [@ EXCEPT !.pc = "exists", !.attempt = 0,
                                           !.s3_metadata = s3_metadata_of(src[inv[w].arg])]]
    /\ obs' = [obs EXCEPT ![w].inspectLog = Append(@, "ok")]
    /\ UNCHANGED <<fixed, last, faultsLeft, src, dst, lastEnd, calls, srcChanges>>

\* head_object answers 404: FileNotFoundError, which the retrier does not catch
\* unless IsCaught says so.
HeadNotFound(w) ==
    /\ inv[w].pc = "inspect"
    /\ InRange(inv[w].attempt, maxRetries)
    /\ src[inv[w].arg] = Absent
    /\ inv' = [inv EXCEPT ![w] = AfterError(w, "FileNotFoundError", "inspect")]
    /\ obs' = [obs EXCEPT ![w].inspectLog = Append(@, "FileNotFoundError"),
                          ![w].inspectWaits = @ \o Slept(w, "FileNotFoundError")]
    /\ lastEnd' = IF Retries(w, "FileNotFoundError") THEN lastEnd
                  ELSE EndOf(w, Failed("FileNotFoundError"))
    /\ UNCHANGED <<fixed, last, faultsLeft, src, dst, calls, srcChanges>>

\* head_object raises a ClientError other than 404, or a BotoCoreError.
HeadError(w, kind) ==
    /\ CanFail
    /\ faultsLeft' = faultsLeft - 1
    /\ inv[w].pc = "inspect"
    /\ InRange(inv[w].attempt, maxRetries)
    /\ inv' = [inv EXCEPT ![w] = AfterError(w, kind, "inspect")]
    /\ obs' = [obs EXCEPT ![w].inspectLog = Append(@, kind),
                          ![w].inspectWaits = @ \o Slept(w, kind)]
    /\ lastEnd' = IF Retries(w, kind) THEN lastEnd ELSE EndOf(w, Failed(kind))
    /\ UNCHANGED <<fixed, last, src, dst, calls, srcChanges>>

\* range(MAX_RETRIES) is used up without a return or a raise: the retrier
\* returns None. Around _get_s3_metadata, s3_metadata['size'] then raises
\* TypeError; around _stream_upload the value is not looked at.
RangeExhausted(w) ==
    /\ inv[w].pc \in {"inspect", "open"}
    /\ ~InRange(inv[w].attempt, maxRetries)
    /\ LET res == IF inv[w].pc = "inspect" THEN Failed("TypeError")
                  ELSE Succeeded(inv[w].s3_metadata.size)
       IN /\ inv' = [inv EXCEPT ![w] = [@ EXCEPT !.pc = "done", !.result = res]]
          /\ lastEnd' = EndOf(w, res)
    /\ UNCHANGED <<fixed, last, faultsLeft, src, dst, obs, calls, srcChanges>>

\* ------------------------------------------------------------------ decide
\* What _check_gcs_exists does when one of its calls raises: the except branch
\* answers, and replicate skips on True and transfers on False.
CheckFailed(w) ==
    IF check_gcs_exists_on_error
    THEN [inv[w] EXCEPT !.pc = "done", !.result = Skipped]
    ELSE [inv[w] EXCEPT !.pc = "open", !.attempt = 0]

\* blob.exists() answers.
BlobExists(w) ==
    /\ inv[w].pc = "exists"
    /\ inv' = [inv EXCEPT ![w].pc = IF dst[KeyOf(w)].exists THEN "reload" ELSE "open",
                          ![w].attempt = 0]
    /\ obs' = [obs EXCEPT ![w].dstQueries = @ + 1,
                          ![w].checkAnswers =
                              IF dst[KeyOf(w)].exists THEN @ ELSE Append(@, FALSE)]
    /\ UNCHANGED <<fixed, last, faultsLeft, src, dst, lastEnd, calls, srcChanges>>

\* blob.exists() raises.
BlobExistsError(w) ==
    /\ CanFail
    /\ faultsLeft' = faultsLeft - 1
    /\ inv[w].pc = "exists"
    /\ inv' = [inv EXCEPT ![w] = CheckFailed(w)]
    /\ obs' = [obs EXCEPT ![w].dstQueries = @ + 1, ![w].checkErr = TRUE,
                          ![w].checkAnswers = Append(@, check_gcs_exists_on_error)]
    /\ lastEnd' = IF check_gcs_exists_on_error THEN EndOf(w, Skipped) ELSE lastEnd
    /\ UNCHANGED <<fixed, last, src, dst, calls, srcChanges>>

\* Mutant: the skip branch rewrites the object's metadata without the tag.
skip_touches(blob) == [blob EXCEPT !.s3_etag = <<>>]

\* What the skip branch leaves of the destination object: it logs and returns.
skip_leaves(blob) == blob

\* blob.reload() answers: the stored s3_etag is compared with the inspected one.
BlobReload(w) ==
    /\ inv[w].pc = "reload"
    /\ LET same == etag_matches(dst[KeyOf(w)], inv[w].s3_metadata.etag)
       IN /\ inv' = [inv EXCEPT ![w] =
                        IF same THEN [@ EXCEPT !.pc = "done", !.result = Skipped]
                        ELSE [@ EXCEPT !.pc = "open", !.attempt = 0]]
          /\ lastEnd' = IF same THEN EndOf(w, Skipped) ELSE lastEnd
          /\ obs' = [obs EXCEPT ![w].dstQueries = @ + 1,
                                ![w].checkAnswers = Append(@, same)]
          /\ dst' = [dst EXCEPT ![KeyOf(w)] = IF same THEN skip_leaves(@) ELSE @]
    /\ UNCHANGED <<fixed, last, faultsLeft, src, calls, srcChanges>>

\* blob.reload() raises.
BlobReloadError(w) ==
    /\ CanFail
    /\ faultsLeft' = faultsLeft - 1
    /\ inv[w].pc = "reload"
    /\ inv' = [inv EXCEPT ![w] = CheckFailed(w)]
    /\ obs' = [obs EXCEPT ![w].dstQueries = @ + 1, ![w].checkErr = TRUE,
                          ![w].checkAnswers = Append(@, check_gcs_exists_on_error)]
    /\ lastEnd' = IF check_gcs_exists_on_error THEN EndOf(w, Skipped) ELSE lastEnd
    /\ UNCHANGED <<fixed, last, src, dst, calls, srcChanges>>

\* ------------------------------------------------------------------ transfer
\* Mutant: s3_bucket and s3_key are stored the wrong way round.
uploaded_blob_swapped(body, s3_bucket, s3_key, s3_metadata) ==
    [exists |-> TRUE, body |-> body, hasMeta |-> TRUE, s3_etag |-> s3_metadata.etag,
     s3_bucket |-> s3_key, s3_key |-> s3_bucket, byEngine |-> TRUE]

\* The blob _stream_upload writes: the bytes of the stream it opened, under the
\* metadata of the inspect step.
uploaded_blob(body, s3_bucket, s3_key, s3_metadata) ==
    [exists |-> TRUE, body |-> body, hasMeta |-> TRUE, s3_etag |-> s3_metadata.etag,
     s3_bucket |-> s3_bucket, s3_key |-> s3_key, byEngine |-> TRUE]

\* Does leaving the `with s3_response['Body']` block close the stream?
with_closes_stream == TRUE

\* Is the stream closed when a statement between get_object and the with
\* block raises? Nothing in _stream_upload closes it there.
closed_before_with == FALSE

\* get_object answers: the body stream is open on the current content.
GetObject(w) ==
    /\ inv[w].pc = "open"
    /\ InRange(inv[w].attempt, maxRetries)
    /\ src[inv[w].arg] # Absent
    /\ inv' = [inv EXCEPT ![w].pc = "upload", ![w].stream = "open",
                          ![w].streamBody = src[inv[w].arg]]
    /\ obs' = [obs EXCEPT ![w].opened = @ + 1]
    /\ UNCHANGED <<fixed, last, faultsLeft, src, dst, lastEnd, calls, srcChanges>>

\* get_object raises a ClientError (NoSuchKey when the object is gone).
GetObjectError(w, kind) ==
    /\ inv[w].pc = "open"
    /\ InRange(inv[w].attempt, maxRetries)
    /\ IF kind = "NoSuchKey" THEN src[inv[w].arg] = Absent ELSE CanFail
    /\ faultsLeft' = IF kind = "NoSuchKey" THEN faultsLeft ELSE faultsLeft - 1
    /\ inv' = [inv EXCEPT ![w] = AfterError(w, kind, "open")]
    /\ obs' = [obs EXCEPT ![w].xferLog = Append(@, kind),
                          ![w].xferWaits = @ \o Slept(w, kind)]
    /\ lastEnd' = IF Retries(w, kind) THEN lastEnd ELSE EndOf(w, Failed(kind))
    /\ UNCHANGED <<fixed, last, src, dst, calls, srcChanges>>

\* A statement between get_object and the with block raises (the blob handle,
\* the metadata assignment): the exception is not a library error.
PrepareError(w) ==
    /\ CanFail
    /\ faultsLeft' = faultsLeft - 1
    /\ inv[w].pc = "upload"
    /\ inv' = [inv EXCEPT ![w] =
                 [AfterError(w, "Other", "open") EXCEPT
                     !.stream = IF closed_before_with THEN "closed" ELSE "open"]]
    /\ obs' = [obs EXCEPT ![w].xferLog = Append(@, "Other"),
                          ![w].xferWaits = @ \o Slept(w, "Other")]
    /\ lastEnd' = IF Retries(w, "Other") THEN lastEnd ELSE EndOf(w, Failed("Other"))
    /\ UNCHANGED <<fixed, last, src, dst, calls, srcChanges>>

\* upload_from_file completes: the destination object is replaced, the with
\* block closes the stream, replicate returns success.
Upload(w) ==
    /\ inv[w].pc = "upload"
    /\ LET res == Succeeded(size_bytes_of(inv[w].s3_metadata, inv[w].streamBody))
       IN /\ inv' = [inv EXCEPT ![w] =
                        [@ EXCEPT !.pc = "done", !.result = res,
                                  !.stream = IF with_closes_stream THEN "closed" ELSE "open"]]
          /\ lastEnd' = EndOf(w, res)
    /\ dst' = [dst EXCEPT ![KeyOf(w)] =
                  uploaded_blob(inv[w].streamBody, inv[w].arg.bucket, inv[w].arg.key,
                                inv[w].s3_metadata)]
    /\ obs' = [v \in Workers |->
                 IF v = w
                 THEN [obs[v] EXCEPT !.xferLog = Append(@, "ok"), !.writes = @ + 1]
                 ELSE IF inv[v].pc # "idle" /\ KeyOf(v) = KeyOf(w)
                      THEN [obs[v] EXCEPT !.dstMoved = TRUE]
                      ELSE obs[v]]
    /\ UNCHANGED <<fixed, last, faultsLeft, src, calls, srcChanges>>

\* upload_from_file raises: a GoogleAPIError (Transient, Permanent) or an
\* exception of another class (ValueError, Other). The with block closes the
\* stream.
UploadError(w, kind) ==
    /\ CanFail
    /\ faultsLeft' = faultsLeft - 1
    /\ inv[w].pc = "upload"
    /\ inv' = [inv EXCEPT ![w] =
                 [AfterError(w, kind, "open") EXCEPT
                     !.stream = IF with_closes_stream THEN "closed" ELSE "open"]]
    /\ obs' = [obs EXCEPT ![w].xferLog = Append(@, kind),
                          ![w].xferWaits = @ \o Slept(w, kind)]
    /\ lastEnd' = IF Retries(w, kind) THEN lastEnd ELSE EndOf(w, Failed(kind))
    /\ UNCHANGED <<fixed, last, src, dst, calls, srcChanges>>

\* ------------------------------------------------------------------ source
\* Somebody overwrites the source object with other content, or creates it.
SrcPut(l, v) ==
    /\ srcChanges < MaxSrcChanges
    /\ src[l] # v
    /\ src' = [src EXCEPT ![l] = v]
    /\ srcChanges' = srcChanges + 1
    /\ obs' = [w \in Workers |->
                 IF inv[w].pc # "idle" /\ inv[w].arg = l
                 THEN [obs[w] EXCEPT !.srcMoved = TRUE] ELSE obs[w]]
    /\ last' = [w \in Workers |->
                  IF last[w].arg = l THEN [last[w] EXCEPT !.clean = FALSE] ELSE last[w]]
    /\ UNCHANGED <<fixed, faultsLeft, dst, inv, lastEnd, calls>>

\* Somebody deletes the source object.
SrcDelete(l) ==
    /\ srcChanges < MaxSrcChanges
    /\ src[l] # Absent
    /\ src' = [src EXCEPT ![l] = Absent]
    /\ srcChanges' = srcChanges + 1
    /\ obs' = [w \in Workers |->
                 IF inv[w].pc # "idle" /\ inv[w].arg = l
                 THEN [obs[w] EXCEPT !.srcMoved = TRUE] ELSE obs[w]]
    /\ last' = [w \in Workers |->
                  IF last[w].arg = l THEN [last[w] EXCEPT !.clean = FALSE] ELSE last[w]]
    /\ UNCHANGED <<fixed, faultsLeft, dst, inv, lastEnd, calls>>

\* ------------------------------------------------------------------ system
\* A response is sent before anything else happens: sending it touches the
\* request's own locals only, so no interleaving is lost.
Responding == \E w \in Workers : inv[w].pc = "done"

Step ==
    \/ \E w \in Workers, l \in Locators : Call(w, l)
    \/ \E w \in Workers : HeadOk(w)
    \/ \E w \in Workers : HeadNotFound(w)
    \/ \E w \in Workers, kind \in LibraryErrors : HeadError(w, kind)
    \/ \E w \in Workers : RangeExhausted(w)
    \/ \E w \in Workers : BlobExists(w)
    \/ \E w \in Workers : BlobExistsError(w)
    \/ \E w \in Workers : BlobReload(w)
    \/ \E w \in Workers : BlobReloadError(w)
    \/ \E w \in Workers : GetObject(w)
    \/ \E w \in Workers, kind \in LibraryErrors \cup {"NoSuchKey"} : GetObjectError(w, kind)
    \/ \E w \in Workers : PrepareError(w)
    \/ \E w \in Workers : Upload(w)
    \/ \E w \in Workers, kind \in LibraryErrors \cup {"Other", "ValueError"} : UploadError(w, kind)
    \/ \E l \in Locators, v \in Versions : SrcPut(l, v)
    \/ \E l \in Locators : SrcDelete(l)

Next ==
    \/ \E w \in Workers : Respond(w)
    \/ ~Responding /\ Step

\* Two request threads, each invocation meeting at most MaxFaults store errors.
Init == InitWith(Workers, MaxCalls, MaxFaults)

Spec == Init /\ [][Next]_vars

\* One request thread, with store errors enough to exhaust both retry loops.
InitSerial == InitWith({"w1"}, MaxCalls - 1, 2 * MaxRetriesBound - 1)

SpecSerial == InitSerial /\ [][Next]_vars

\* Every step an invocation can take once it has started, whatever the store
\* answers.
Run(w) ==
    \/ HeadOk(w) \/ HeadNotFound(w) \/ RangeExhausted(w)
    \/ \E kind \in LibraryErrors : HeadError(w, kind)
    \/ BlobExists(w) \/ BlobExistsError(w) \/ BlobReload(w) \/ BlobReloadError(w)
    \/ GetObject(w) \/ PrepareError(w) \/ Upload(w)
    \/ \E kind \in LibraryErrors \cup {"NoSuchKey"} : GetObjectError(w, kind)
    \/ \E kind \in LibraryErrors \cup {"Other", "ValueError"} : UploadError(w, kind)

\* Every store call returns and every sleep ends: a request thread that can
\* go on does go on.
Live == \A w \in Workers : WF_vars(Respond(w) \/ (~Responding /\ Run(w)))

\* One request with store errors enough to exhaust both retry loops, or two
\* requests on two threads.
InitLive ==
    \/ InitWith({"w1"}, 1, 2 * MaxRetriesBound - 1)
    \/ InitWith(Workers, MaxCalls - 1, MaxFaults)

SpecLive == InitLive /\ [][Next]_vars /\ Live

\* ------------------------------------------------------------------ key derivation
\* replicate computes the destination key of the next request.
DeriveKey ==
    /\ Len(derivedKeys) < Len(reqs)
    /\ LET r == reqs[Len(derivedKeys) + 1]
       IN derivedKeys' = Append(derivedKeys, gcs_key(r.bucket, r.key))
    /\ UNCHANGED <<maxRetries, src, dst, inv, obs, last, lastEnd, calls, srcChanges,
                   threads, faultsLeft, reqs>>

\* Two requests for any two pairs of names; no store is involved.
InitKeys ==
    /\ reqs \in [1..2 -> NamePairs]
    /\ derivedKeys = <<>>
    /\ threads = {}
    /\ faultsLeft = 0
    /\ maxRetries = MaxRetriesBound
    /\ src = [l \in Locators |-> Absent]
    /\ dst = [k \in GcsKeys |-> NoBlob]
    /\ inv = [w \in Workers |-> IdleInv]
    /\ obs = [w \in Workers |-> FreshObs]
    /\ last = [w \in Workers |-> NoLast]
    /\ lastEnd = [l \in Locators |-> NoEnd]
    /\ calls = 0
    /\ srcChanges = 0

NextKeys == DeriveKey

SpecKeys == InitKeys /\ [][NextKeys]_vars

\* ------------------------------------------------------------------ claims
Done(w) == inv[w].pc = "done"

Status(w) == inv[w].result.status

\* Neither the source object nor the destination object was modified by
\* somebody else since the invocation started.
Undisturbed(w) == ~obs[w].srcMoved /\ ~obs[w].dstMoved

\* The inspect step returned metadata.
Inspected(w) ==
    obs[w].inspectLog # <<>> /\ obs[w].inspectLog[Len(obs[w].inspectLog)] = "ok"

\* The content-identity tag of a source content, as the inspect step reports it.
TagOf(v) == strip(RawETagOf(v))

\* C1 as stated: a call that starts while the destination carries the source's
\* current tag returns skipped, opening no stream and writing nothing (here
\* even only for calls during which nobody else touches either object).
C1_AsStated ==
    \A w \in Workers :
        (Done(w) /\ obs[w].startMatch /\ Undisturbed(w))
            => (Status(w) = "skipped" /\ obs[w].opened = 0 /\ obs[w].writes = 0)

\* C1, amended: a call that starts while the destination carries the source's
\* current tag, whose inspect step returns and whose existence check meets no
\* error, and during which nobody else modifies either object, returns skipped;
\* and a skipped call opened no source stream and wrote nothing.
C1_Idempotence ==
    \A w \in Workers :
        /\ (Done(w) /\ obs[w].startMatch /\ Undisturbed(w) /\ Inspected(w) /\ ~obs[w].checkErr)
              => Status(w) = "skipped"
        /\ (Done(w) /\ Status(w) = "skipped")
              => (obs[w].opened = 0 /\ obs[w].writes = 0 /\ obs[w].xferLog = <<>>)

\* A call skipped an object that an earlier call of the engine had written.
C1_Witness ==
    \E w \in Workers :
        /\ Done(w) /\ obs[w].startMatch /\ Undisturbed(w) /\ Status(w) = "skipped"
        /\ dst[KeyOf(w)].byEngine

\* C2: an invocation whose existence check met an error goes on to the
\* transfer step and never returns skipped.
C2_FailOpen ==
    \A w \in Workers :
        obs[w].checkErr =>
            /\ Status(w) # "skipped"
            /\ inv[w].pc \in {"open", "upload", "done"}
            /\ Done(w) => obs[w].xferLog # <<>>

\* An existence check failed and the call transferred the object.
C2_Witness ==
    \E w \in Workers : obs[w].checkErr /\ Done(w) /\ Status(w) = "success" /\ obs[w].writes = 1

\* C3 as stated (for a call alone on the object, meeting no store error): after
\* a replicated or skipped call, once the source's tag is another than it was
\* when that call returned, the next call returns success and leaves the
\* source's new tag on the destination object.
C3_AsStated ==
    \A w \in Workers :
        (Done(w) /\ obs[w].changedSincePrev /\ Undisturbed(w) /\ NoFaults(w) /\ ~obs[w].overlap)
            => /\ Status(w) = "success"
               /\ dst[KeyOf(w)].s3_etag = TagOf(src[inv[w].arg])

\* C3, amended: after a replicated or skipped call, when the source's tag at the
\* next call differs from the tag that call inspected, the next call (meeting
\* no store error, nobody else modifying either object meanwhile) returns
\* success and has overwritten the destination object with the source's
\* content under the source's new tag.
C3_ChangeRecopies ==
    \A w \in Workers :
        (Done(w) /\ obs[w].tagChanged /\ Undisturbed(w) /\ NoFaults(w))
            => /\ Status(w) = "success"
               /\ obs[w].writes = 1
               /\ dst[KeyOf(w)].s3_etag = TagOf(src[inv[w].arg])
               /\ dst[KeyOf(w)].body = src[inv[w].arg]

\* A call overwrote what an earlier call had written, under the other tag.
C3_Witness ==
    \E w \in Workers :
        /\ Done(w) /\ obs[w].tagChanged /\ Undisturbed(w) /\ NoFaults(w)
        /\ Status(w) = "success"
        /\ dst[KeyOf(w)].s3_etag = TagOf(src[inv[w].arg])
        /\ obs[w].dstQueries = 2 /\ obs[w].writes = 1

\* The inspect step reported that the source object does not exist.
NotFoundReported(w) ==
    obs[w].inspectLog # <<>> /\ obs[w].inspectLog[Len(obs[w].inspectLog)] = "FileNotFoundError"

\* C4 as stated: the not-found outcome comes after exactly one metadata query
\* and no wait, with the destination left alone.
C4_AsStated ==
    \A w \in Workers :
        (Done(w) /\ inv[w].result.code = 404 /\ NotFoundReported(w))
            => /\ Len(obs[w].inspectLog) = 1
               /\ obs[w].inspectWaits = <<>>
               /\ obs[w].dstQueries = 0 /\ obs[w].writes = 0

\* C4, amended: a metadata query that reports not-found ends the invocation at
\* once in the not-found outcome: it is the last query, no wait follows it (the
\* waits are those of the retryable errors before it, none when it is the
\* first query), and the destination is neither queried nor written.
C4_NotFound ==
    \A w \in Workers :
        \A i \in DOMAIN obs[w].inspectLog :
            obs[w].inspectLog[i] = "FileNotFoundError"
                => /\ Done(w)
                   /\ inv[w].result.code = 404 /\ Status(w) = "failed"
                   /\ i = Len(obs[w].inspectLog)
                   /\ Len(obs[w].inspectWaits) = i - 1
                   /\ \A j \in 1..(i - 1) : obs[w].inspectLog[j] \in {"Transient", "Permanent"}
                   /\ obs[w].dstQueries = 0 /\ obs[w].writes = 0 /\ obs[w].opened = 0

\* A not-found answer on the first query, and one after a retried error.
C4_Witness ==
    \E w \in Workers :
        /\ Done(w) /\ inv[w].result.code = 404
        /\ Len(obs[w].inspectLog) = 2
        /\ obs[w].inspectWaits = <<1>>

AllTransient(log) == log # <<>> /\ \A i \in DOMAIN log : log[i] = "Transient"

\* The waits of a retrier whose every attempt failed: 2^0 .. 2^(max-2).
ExpectedWaits(max) == [i \in 1..(max - 1) |-> 2 ^ (i - 1)]

\* C5: with MAX_RETRIES >= 1, a retry-wrapped call that fails transiently every
\* time is attempted exactly MAX_RETRIES times, the wait after attempt i is 2^i,
\* and no wait follows the last attempt: the retrier raises that error.
C5_RetryBound ==
    \A w \in Workers :
        /\ (Done(w) /\ AllTransient(obs[w].inspectLog))
              => /\ Len(obs[w].inspectLog) = maxRetries
                 /\ obs[w].inspectWaits = ExpectedWaits(maxRetries)
                 /\ Status(w) = "failed" /\ inv[w].result.error = "Transient"
        /\ (Done(w) /\ AllTransient(obs[w].xferLog))
              => /\ Len(obs[w].xferLog) = maxRetries
                 /\ obs[w].xferWaits = ExpectedWaits(maxRetries)
                 /\ Status(w) = "failed" /\ inv[w].result.error = "Transient"

\* Three attempts of the transfer, all failing transiently, with waits 1 and 2.
C5_Witness ==
    \E w \in Workers :
        /\ Done(w) /\ maxRetries = 3
        /\ obs[w].xferLog = <<"Transient", "Transient", "Transient">>
        /\ obs[w].xferWaits = <<1, 2>>

\* C6 as stated: a permanent remote error ends the retry loop: no attempt and
\* no wait follows it.
C6_AsStated ==
    \A w \in Workers :
        /\ \A i \in DOMAIN obs[w].inspectLog :
              obs[w].inspectLog[i] = "Permanent"
                  => (Done(w) /\ i = Len(obs[w].inspectLog) /\ Len(obs[w].inspectWaits) < i)
        /\ \A i \in DOMAIN obs[w].xferLog :
              obs[w].xferLog[i] = "Permanent"
                  => (Done(w) /\ i = Len(obs[w].xferLog) /\ Len(obs[w].xferWaits) < i)

\* C7: when a call returns success, before anybody else writes the key, the
\* destination object's metadata holds the bucket and the key passed
\* to the call and the tag its inspect step returned.
C7_MetadataRoundTrip ==
    \A w \in Workers :
        (Done(w) /\ Status(w) = "success")
            => LET blob == dst[KeyOf(w)]
               IN /\ blob.exists /\ blob.hasMeta
                  /\ blob.s3_bucket = inv[w].arg.bucket
                  /\ blob.s3_key = inv[w].arg.key
                  /\ blob.s3_etag = inv[w].s3_metadata.etag
                  /\ obs[w].writes = 1

\* A call returned success and the object carries its bucket, key and tag.
C7_Witness ==
    \E w \in Workers :
        /\ Done(w) /\ Status(w) = "success"
        /\ dst[KeyOf(w)].s3_bucket = <<"b">> /\ dst[KeyOf(w)].s3_key = <<"k">>
        /\ dst[KeyOf(w)].s3_etag \in {<<"a">>, <<"c", "d">>}

\* C8 as stated: every object the engine wrote carries the tag of the source
\* content its bytes are.
C8_AsStated ==
    \A k \in GcsKeys : dst[k].byEngine => dst[k].s3_etag = TagOf(dst[k].body)

\* C9 as stated (with a valid MAX_RETRIES and the source object present): when
\* the second of two overlapping invocations of one object finishes, neither
\* having met a store error and the source untouched since they started, each
\* is skipped or success and the destination holds the source's content
\* under its tag.
C9_AsStated ==
    \A w \in Workers : \A v \in Workers \ {w} :
        ( /\ Done(w) /\ obs[w].overlap /\ NoFaults(w) /\ ~obs[w].srcMoved
          /\ last[v].status # "none" /\ last[v].clean /\ last[v].arg = inv[w].arg
          /\ src[inv[w].arg] # Absent /\ maxRetries >= 1 )
            => /\ Status(w) \in {"skipped", "success"}
               /\ last[v].status \in {"skipped", "success"}
               /\ dst[KeyOf(w)].body = src[inv[w].arg]
               /\ dst[KeyOf(w)].s3_etag = TagOf(src[inv[w].arg])

\* C10 as stated: no transfer attempt is over (a retry pending, or the
\* invocation finished) with its source stream still open.
C10_AsStated ==
    \A w \in Workers : inv[w].pc \in {"open", "done"} => inv[w].stream # "open"

\* C11: the size_bytes of a success result is the size the invocation's inspect
\* step returned, also when the bytes uploaded are those of another content
\* that replaced the source after the inspect step.
C11_SizeFromInspect ==
    \A w \in Workers :
        (Done(w) /\ Status(w) = "success")
            => /\ Inspected(w)
               /\ inv[w].result.size_bytes = inv[w].s3_metadata.size
               /\ inv[w].result.size_bytes \in {SizeOf(v) : v \in Versions}

\* A success whose size_bytes is the inspected size and not the size of the
\* content that was uploaded.
C11_Witness ==
    \E w \in Workers :
        /\ Done(w) /\ Status(w) = "success"
        /\ inv[w].result.size_bytes = inv[w].s3_metadata.size
        /\ inv[w].result.size_bytes # SizeOf(inv[w].streamBody)
        /\ dst[KeyOf(w)].body = inv[w].streamBody

\* C12 as stated: the 404 outcome is given exactly when the inspect step
\* reported that the object does not exist, every other failure gives 500, and
\* success and skipped give 200.
C12_AsStated ==
    \A w \in Workers :
        Done(w) =>
            /\ (inv[w].result.code = 404) <=> NotFoundReported(w)
            /\ (Status(w) = "failed" /\ ~NotFoundReported(w)) => inv[w].result.code = 500
            /\ Status(w) \in {"success", "skipped"} => inv[w].result.code = 200

HasSeparator(name) == \E i \in DOMAIN name : name[i] = "/"

\* Every key derived so far is the bucket name, the separator, the key; and
\* the same pair gives the same key.
KeysWellFormed ==
    /\ \A i \in DOMAIN derivedKeys :
          /\ Len(derivedKeys[i]) = Len(reqs[i].bucket) + 1 + Len(reqs[i].key)
          /\ SubSeq(derivedKeys[i], 1, Len(reqs[i].bucket)) = reqs[i].bucket
          /\ derivedKeys[i][Len(reqs[i].bucket) + 1] = "/"
          /\ SubSeq(derivedKeys[i], Len(reqs[i].bucket) + 2, Len(derivedKeys[i])) = reqs[i].key
    /\ \A i, j \in DOMAIN derivedKeys : reqs[i] = reqs[j] => derivedKeys[i] = derivedKeys[j]

RECURSIVE SumSeq(_)
SumSeq(q) == IF q = <<>> THEN 0 ELSE Head(q) + SumSeq(Tail(q))

\* The seconds an invocation has slept in its two retry-wrapped calls.
TotalWait(w) == SumSeq(obs[w].inspectWaits) + SumSeq(obs[w].xferWaits)

\* sum(2^i for i in 0..max_retries)
RECURSIVE BackoffBudget(_)
BackoffBudget(n) == IF n < 0 THEN 0 ELSE 2 ^ n + BackoffBudget(n - 1)

\* C14: with MAX_RETRIES >= 1, the waits of the inspect retrier and of the
\* transfer retrier of one invocation never add up to more than
\* 2^0 + ... + 2^MAX_RETRIES.
C14_BackoffBudget ==
    \A w \in Workers : maxRetries >= 1 => TotalWait(w) <= BackoffBudget(maxRetries)

\* The most an invocation can wait with three attempts: the inspect step
\* succeeds on its last attempt and the transfer fails on all of them.
C14_Witness ==
    \E w \in Workers :
        /\ Done(w) /\ maxRetries = 3
        /\ obs[w].inspectWaits = <<1, 2>> /\ obs[w].xferWaits = <<1, 2>>
        /\ TotalWait(w) = 6

\* C15: an invocation returns skipped only when its existence check, made
\* after its inspect step returned and meeting no error, found the destination
\* object present with a stored tag equal to the inspected tag. (The
\* destination is as the check read it: the result is returned at once.)
C15_SkipSound ==
    \A w \in Workers :
        (Done(w) /\ Status(w) = "skipped")
            => /\ Inspected(w) /\ ~obs[w].checkErr /\ obs[w].dstQueries = 2
               /\ dst[KeyOf(w)].exists
               /\ dst[KeyOf(w)].hasMeta
               /\ dst[KeyOf(w)].s3_etag = inv[w].s3_metadata.etag
               /\ dst[KeyOf(w)] \notin {NoBlob, ForeignBlob}

\* A call skips an object that another call wrote while it was running: the
\* destination had no matching tag when it started.
C15_Witness ==
    \E w \in Workers :
        /\ Done(w) /\ Status(w) = "skipped"
        /\ ~obs[w].startMatch /\ obs[w].dstMoved
        /\ dst[KeyOf(w)].s3_etag = inv[w].s3_metadata.etag

\* The calls of _stream_upload an invocation has made, the running one included.
TransferAttempts(w) == Len(obs[w].xferLog) + (IF inv[w].pc = "upload" THEN 1 ELSE 0)

\* The transfer step has been entered.
TransferStarted(w) ==
    inv[w].pc \in {"open", "upload"} \/ obs[w].xferLog # <<>> \/ obs[w].opened > 0

\* C16: the existence check runs only after the inspect step returned, the
\* transfer only after the existence check answered false, the existence check
\* answers once at most (two destination queries at most), and the metadata
\* query and the transfer are each attempted MAX_RETRIES times at most.
C16_StepOrder ==
    \A w \in Workers :
        /\ (inv[w].pc \in {"exists", "reload"} \/ obs[w].dstQueries > 0) => Inspected(w)
        /\ TransferStarted(w) => (Inspected(w) /\ obs[w].checkAnswers = <<FALSE>>)
        /\ (Done(w) /\ Status(w) = "skipped")
              => (obs[w].checkAnswers = <<TRUE>> /\ ~TransferStarted(w))
        /\ Len(obs[w].checkAnswers) <= 1 /\ obs[w].dstQueries <= 2
        /\ Len(obs[w].inspectLog) = 0 \/ Len(obs[w].inspectLog) <= maxRetries
        /\ TransferAttempts(w) = 0 \/ TransferAttempts(w) <= maxRetries

\* Both retry-wrapped calls use their two attempts, around one existence check.
C16_Witness ==
    \E w \in Workers :
        /\ Done(w) /\ Status(w) = "success" /\ maxRetries = 2
        /\ Len(obs[w].inspectLog) = 2 /\ Len(obs[w].xferLog) = 2
        /\ obs[w].checkAnswers = <<FALSE>> /\ obs[w].dstQueries = 2

\* Every attempt in the log failed with an error the retrier catches, and they
\* were MAX_RETRIES.
Exhausted(log) ==
    /\ log # <<>> /\ Len(log) = maxRetries
    /\ \A i \in DOMAIN log : log[i] \in {"Transient", "Permanent", "NoSuchKey"}

\* C17: when every attempt of a retry-wrapped call failed with a retryable
\* error, the invocation fails with the error of the last attempt, of that
\* kind and not wrapped (whatever the earlier attempts raised).
C17_LastError ==
    \A w \in Workers :
        /\ (Done(w) /\ Exhausted(obs[w].inspectLog))
              => /\ Status(w) = "failed"
                 /\ inv[w].result.error = obs[w].inspectLog[Len(obs[w].inspectLog)]
        /\ (Done(w) /\ Exhausted(obs[w].xferLog))
              => /\ Status(w) = "failed"
                 /\ inv[w].result.error = obs[w].xferLog[Len(obs[w].xferLog)]

\* The metadata query failed transiently on each of two attempts, and the
\* invocation failed with that error.
C17_Witness ==
    \E w \in Workers :
        /\ Done(w) /\ maxRetries = 2
        /\ obs[w].inspectLog = <<"Transient", "Transient">>
        /\ inv[w].result.error = "Transient" /\ inv[w].result.code = 500

\* C18 as stated, for whatever MAX_RETRIES is: a retrier that is over has
\* called its operation at least once; it returns normally only after a call
\* that succeeded; and a success after k retried failures comes after k waits
\* and k + 1 calls.
C18_AsStated ==
    \A w \in Workers :
        /\ inv[w].pc \notin {"idle", "inspect"} => obs[w].inspectLog # <<>>
        /\ inv[w].pc \in {"exists", "reload", "open", "upload"} => Inspected(w)
        /\ Inspected(w) => Len(obs[w].inspectLog) = Len(obs[w].inspectWaits) + 1
        /\ (Done(w) /\ Status(w) = "success")
              => /\ obs[w].xferLog # <<>>
                 /\ obs[w].xferLog[Len(obs[w].xferLog)] = "ok"
                 /\ Len(obs[w].xferLog) = Len(obs[w].xferWaits) + 1

\* The invocation failed in its inspect step: not found, retries exhausted, or
\* any other error of the metadata query.
FailedAtInspect(w) == Status(w) = "failed" /\ ~Inspected(w)

\* C19: an invocation that ends skipped, or fails in its inspect step, opened
\* no source stream, started no transfer and wrote nothing; the destination
\* store is as it was when the invocation started, unless another invocation
\* wrote the key meanwhile.
C19_NoEffect ==
    \A w \in Workers :
        (Done(w) /\ (Status(w) = "skipped" \/ FailedAtInspect(w)))
            => /\ obs[w].writes = 0 /\ obs[w].opened = 0 /\ obs[w].xferLog = <<>>
               /\ inv[w].stream = "none"
               /\ ~obs[w].dstMoved => dst = obs[w].dstAtStart
               /\ FailedAtInspect(w) => obs[w].dstQueries = 0

\* A call skips an object the engine wrote earlier and leaves it as it was.
C19_Witness ==
    \E w \in Workers :
        /\ Done(w) /\ Status(w) = "skipped" /\ ~obs[w].dstMoved
        /\ obs[w].dstAtStart[KeyOf(w)].byEngine
        /\ dst = obs[w].dstAtStart

\* How far an invocation is: idle, inspect, the existence check, transfer.
Phase(pc) ==
    IF pc = "idle" THEN 0 ELSE IF pc = "inspect" THEN 1
    ELSE IF pc \in {"exists", "reload"} THEN 2
    ELSE IF pc \in {"open", "upload"} THEN 3 ELSE 4

\* A step of an invocation that is not over moves it forward: to a later
\* phase, to a later attempt of the same retrier, or further in the attempt.
Advances(w) ==
    LET a == inv[w]
        b == inv'[w]
    IN (Active(w) /\ b # a) =>
          \/ Phase(b.pc) > Phase(a.pc)
          \/ Phase(b.pc) = Phase(a.pc) /\ b.attempt > a.attempt
          \/ /\ Phase(b.pc) = Phase(a.pc) /\ b.attempt = a.attempt
             /\ <<a.pc, b.pc>> \in {<<"exists", "reload">>, <<"open", "upload">>}

\* The outcome is set when the invocation ends and is one of the three; once
\* it is set the invocation only hands it over: no call, nothing recorded.
OneOutcome(w) ==
    /\ Active(w) => Status(w) = "none"
    /\ (Active(w) /\ inv'[w].pc = "done") => inv'[w].result.status \in {"skipped", "success", "failed"}
    /\ Done(w) => /\ Status(w) \in {"skipped", "success", "failed"}
                  /\ inv'[w] \in {inv[w], IdleInv}
                  /\ obs'[w] \in {obs[w], FreshObs}
                  /\ dst' = dst

\* C20: when every store call returns and every wait ends, an invocation that
\* has started reaches an outcome; each of its steps moves it forward, it has
\* one outcome, skipped, success or failed, and does nothing after it but
\* return it.
C20_Termination ==
    /\ \A w \in Workers : (inv[w].pc # "idle") ~> Done(w)
    /\ [][\A w \in Workers : Advances(w) /\ OneOutcome(w)]_vars

\* An invocation ended after its transfer had failed on all three attempts.
C20_Witness ==
    \E w \in Workers :
        /\ Done(w) /\ Status(w) = "failed" /\ maxRetries = 3
        /\ Len(obs[w].xferLog) = 3 /\ obs[w].opened >= 1
====
